---- MODULE Spec2Model ----
(***************************************************************************)
(* micSQL: the query-history route (src/app/api/query-history/route.ts),   *)
(* the VoiceEnrollment component (src/unnamed/part_000) and the voice      *)
(* verification engine the specification describes.                        *)
(***************************************************************************)
EXTENDS Integers, Sequences, FiniteSets, TLC

\* ------------------------------------------------------------- bounds
MaxRecords == 2
MaxAttempts == 3
MaxPuts == 3
MaxVerifications == 3
MaxInFlight == 2

\* ------------------------------------------------------ program constants
DefaultLimit == 10
DefaultPage == 1

\* --------------------------------------------------------- JS values
NULL == "<null>"
UNDEF == "<undefined>"

\* JavaScript truthiness of the string-or-missing values the handlers test.
Falsy(x) == x \in {NULL, UNDEF, ""}

\* a || b
OrElse(a, b) == IF Falsy(a) THEN b ELSE a

\* ------------------------------------------------------------ sessions
Users == {"u1", "u2", "root"}

Role(u) == IF u = "root" THEN "ADMIN" ELSE "USER"

\* getServerSession(authOptions): no session, or the signed-in user.
NoSession == [id |-> "<none>", role |-> "<none>"]

Sessions == {NoSession} \cup {[id |-> u, role |-> Role(u)] : u \in Users}

VARIABLE component    \* the part of the system the run follows

VARIABLES
    queryHistory,     \* prisma.queryHistory: id -> row, for the rows that exist
    visualizations,   \* prisma.visualization: queryId -> chartType (1:1 relation)
    nextId,           \* rows created so far + 1 (ids are never reused)
    last              \* the latest response sent, with the request it answers

routeVars == <<queryHistory, visualizations, nextId, last>>

VARIABLES
    isEnrolling,      \* useState(false)
    status,           \* useState("")
    attempts,         \* the calls of handleEnroll so far, in order
    enrollRequests    \* the POSTs to /api/auth/enroll sent so far

voiceVars == <<isEnrolling, status, attempts, enrollRequests>>

\* TemplateStore (specification, 4.2 and 5)
VARIABLES
    templates,        \* the template rows written so far
    lockHolder,       \* user -> the writer holding the user's write lock, or 0
    writers,          \* writer -> the put it is in
    putsStarted,      \* puts begun so far
    lastRead          \* what the latest getActive returned

storeVars == <<templates, lockHolder, writers, putsStarted, lastRead>>

\* VerificationOrchestrator (specification, 4.4, 4.5 and 5)
VARIABLES
    verifs,           \* the verification attempts received so far, in order
    audit,            \* the VerificationAttempt log
    failCount,        \* user -> the rate-limit counter
    streak,           \* user -> rejects recorded since the last accept or window
    hasTemplate       \* user -> whether getActive finds a template

verifyVars == <<verifs, audit, failCount, streak, hasTemplate>>

\* The route, the component and the engine share no state: a run follows one.
InRoute == component = "route" /\ UNCHANGED <<voiceVars, storeVars, verifyVars, component>>
InVoice == component = "voice" /\ UNCHANGED <<routeVars, storeVars, verifyVars, component>>
InStore == component = "templates" /\ UNCHANGED <<routeVars, voiceVars, verifyVars, component>>
InVerify == component = "verification" /\ UNCHANGED <<routeVars, voiceVars, storeVars, component>>

Ids == 1..MaxRecords

UserQueries == {"q1", "q2"}
SqlQueries == {"s1"}
ChartTypes == {"bar", "line"}

\* A row as findUnique / findMany return it with include: { visualization: true }.
Row(id) ==
    [id |-> id,
     userId |-> queryHistory[id].userId,
     userQuery |-> queryHistory[id].userQuery,
     sqlQuery |-> queryHistory[id].sqlQuery,
     successful |-> queryHistory[id].successful,
     visualization |-> IF id \in DOMAIN visualizations THEN visualizations[id] ELSE NULL]

\* The response sent, kept with what the request was: its handler, its session,
\* the userId it named (GET's query string, POST's body), the id it named (PUT,
\* DELETE), the status and the ids of the rows returned (GET; a returned row is
\* Row(id) of the same state).
Respond(op, session, claimed, id, code, rows) ==
    last' = [op |-> op, user |-> session.id, role |-> session.role,
             claimed |-> claimed, id |-> id, status |-> code, rows |-> rows]

InitRoute ==
    /\ queryHistory = << >>
    /\ visualizations = << >>
    /\ nextId = 1
    /\ last = [op |-> "<none>", user |-> NoSession.id, role |-> NoSession.role,
               claimed |-> UNDEF, id |-> 0, status |-> 0, rows |-> << >>]

\* ---------------------------------------------------------------- GET
\* parseInt on the query-string values the model sends.
ParseInt(s) == CASE s = "0" -> 0 [] s = "1" -> 1 [] s = "2" -> 2

LimitOf(p) == IF Falsy(p) THEN DefaultLimit ELSE ParseInt(p)
PageOf(p) == IF Falsy(p) THEN DefaultPage ELSE ParseInt(p)

\* searchParams.get("successful") ? ... === "true" : undefined
SuccessfulFilter(p) == IF Falsy(p) THEN UNDEF ELSE IF p = "true" THEN "true" ELSE "false"

Matches(id, whereUser, successful) ==
    /\ queryHistory[id].userId = whereUser
    /\ successful # UNDEF => queryHistory[id].successful = (successful = "true")

\* The ids in S, newest first (createdAt grows with the id).
RECURSIVE Desc(_)
Desc(S) ==
    IF S = {} THEN << >>
    ELSE LET m == CHOOSE x \in S : \A y \in S : y <= x
         IN <<m>> \o Desc(S \ {m})

\* findMany({ where, orderBy: { createdAt: 'desc' }, skip, take })
FindMany(whereUser, successful, skip, take) ==
    LET ids == Desc({id \in DOMAIN queryHistory : Matches(id, whereUser, successful)})
        to == IF skip + take < Len(ids) THEN skip + take ELSE Len(ids)
    IN [i \in 1..(IF to > skip THEN to - skip ELSE 0) |-> ids[skip + i]]

\* The non-admin check of GET (line 25).
GetForbidden(session, userId) == session.role # "ADMIN" /\ userId # session.id

GetWhereUser(session, userId) == OrElse(userId, session.id)

GET(session, userId, limitP, pageP, successfulP) ==
    /\ InRoute
    /\ UNCHANGED <<queryHistory, visualizations, nextId>>
    /\ IF session = NoSession
       THEN Respond("GET", session, userId, 0, 401, << >>)
       ELSE LET limit == LimitOf(limitP)
                page == PageOf(pageP)
                skip == (page - 1) * limit
            IN IF GetForbidden(session, userId)
               THEN Respond("GET", session, userId, 0, 403, << >>)
               ELSE IF skip < 0
                    \* prisma rejects a negative skip: the catch answers 500
                    THEN Respond("GET", session, userId, 0, 500, << >>)
                    ELSE Respond("GET", session, userId, 0, 200,
                                 FindMany(GetWhereUser(session, userId),
                                          SuccessfulFilter(successfulP), skip, limit))

\* --------------------------------------------------------------- POST
PostOwnerFromBody(session, bodyUserId) == OrElse(bodyUserId, session.id)

\* The userId the created row gets (line 91).
PostOwner(session, bodyUserId) == session.id

POST(session, userQuery, sqlQuery, successful, visualization, bodyUserId) ==
    /\ InRoute
    /\ IF session = NoSession
       THEN /\ Respond("POST", session, bodyUserId, 0, 401, << >>)
            /\ UNCHANGED <<queryHistory, visualizations, nextId>>
       ELSE IF Falsy(userQuery) \/ Falsy(sqlQuery)
            THEN /\ Respond("POST", session, bodyUserId, 0, 400, << >>)
                 /\ UNCHANGED <<queryHistory, visualizations, nextId>>
            ELSE /\ nextId <= MaxRecords
                 /\ queryHistory' = queryHistory @@ (nextId :>
                        [userId |-> PostOwner(session, bodyUserId),
                         userQuery |-> userQuery,
                         sqlQuery |-> sqlQuery,
                         successful |-> IF successful = UNDEF THEN TRUE
                                        ELSE successful = "true"])
                 /\ visualizations' = IF Falsy(visualization) THEN visualizations
                                      ELSE visualizations @@ (nextId :> visualization)
                 /\ nextId' = nextId + 1
                 /\ Respond("POST", session, bodyUserId, 0, 201, << >>)

\* ---------------------------------------------------------------- PUT
NotOwnerUnchecked(session, existingQuery) == FALSE

\* The owner check of PUT (line 155) and of DELETE (line 243).
NotOwner(session, existingQuery) ==
    session.role # "ADMIN" /\ existingQuery.userId # session.id

\* The $transaction of PUT (lines 160-204): the row's update, then the
\* visualization's update or create.
PutWrite(id, existingQuery, userQuery, sqlQuery, successful, visualization) ==
    /\ queryHistory' = [queryHistory EXCEPT ![id] =
           [userId |-> @.userId,
            userQuery |-> OrElse(userQuery, existingQuery.userQuery),
            sqlQuery |-> OrElse(sqlQuery, existingQuery.sqlQuery),
            successful |-> IF successful # UNDEF THEN successful = "true"
                           ELSE existingQuery.successful]]
    /\ visualizations' =
           IF Falsy(visualization) THEN visualizations
           ELSE IF existingQuery.visualization # NULL
                THEN [visualizations EXCEPT ![id] =
                         OrElse(visualization, existingQuery.visualization)]
                ELSE visualizations @@ (id :> visualization)

PUT(session, id, userQuery, sqlQuery, successful, visualization) ==
    /\ InRoute
    /\ UNCHANGED nextId
    /\ IF session = NoSession
       THEN /\ Respond("PUT", session, UNDEF, id, 401, << >>)
            /\ UNCHANGED <<queryHistory, visualizations>>
       ELSE IF id = 0
            THEN /\ Respond("PUT", session, UNDEF, id, 400, << >>)
                 /\ UNCHANGED <<queryHistory, visualizations>>
            ELSE IF id \notin DOMAIN queryHistory
                 THEN /\ Respond("PUT", session, UNDEF, id, 404, << >>)
                      /\ UNCHANGED <<queryHistory, visualizations>>
                 ELSE IF NotOwner(session, Row(id))
                      THEN /\ Respond("PUT", session, UNDEF, id, 403, << >>)
                           /\ UNCHANGED <<queryHistory, visualizations>>
                      ELSE /\ PutWrite(id, Row(id), userQuery, sqlQuery,
                                       successful, visualization)
                           /\ Respond("PUT", session, UNDEF, id, 200, << >>)

\* ------------------------------------------------------------- DELETE
\* prisma.queryHistory.delete: the row goes, and its visualization with it.
Without(f, id) == [k \in DOMAIN f \ {id} |-> f[k]]

\* The status DELETE answers with (lines 223-251).
DeleteStatus(session, id) ==
    IF session = NoSession THEN 401
    ELSE IF id = 0 THEN 400
    ELSE IF id \notin DOMAIN queryHistory THEN 404
    ELSE IF NotOwner(session, Row(id)) THEN 403
    ELSE 200

DeletesBeforeOwnerCheck(session, id) ==
    session # NoSession /\ id # 0 /\ id \in DOMAIN queryHistory

\* Whether DELETE reaches prisma.queryHistory.delete (line 247): past the
\* session, id, existence and owner checks.
Deletes(session, id) ==
    /\ session # NoSession
    /\ id # 0
    /\ id \in DOMAIN queryHistory
    /\ ~NotOwner(session, Row(id))

DELETE(session, id) ==
    /\ InRoute
    /\ UNCHANGED nextId
    /\ Respond("DELETE", session, UNDEF, id, DeleteStatus(session, id), << >>)
    /\ IF Deletes(session, id)
       THEN /\ queryHistory' = Without(queryHistory, id)
            /\ visualizations' = Without(visualizations, id)
       ELSE UNCHANGED <<queryHistory, visualizations>>

\* ------------------------------------------------------ the requests sent
SignedIn == Sessions \ {NoSession}

\* limit and page as sent in the query string: the defaults, the second page
\* of one row each, and page=0 (a negative skip).
Pagings == {<<NULL, NULL>>, <<"1", "2">>, <<"2", "0">>}

\* POST bodies <<userQuery, sqlQuery, successful, visualization>>: userQuery or
\* sqlQuery missing, or both given with and without the optional fields.
PostBodies ==
    {<<UNDEF, "s1", UNDEF, UNDEF>>, <<"q1", "", UNDEF, UNDEF>>}
        \cup {<<"q1", "s1", ok, v>> : ok \in {UNDEF, "false"}, v \in {UNDEF, "bar"}}

\* userQuery and sqlQuery of a PUT body: both left out, or both given.
PutTexts == {<<UNDEF, UNDEF>>, <<"q2", "s1">>}

\* A request without a session is answered before its payload is read: one
\* payload stands for all of them.
NextRoute ==
    \/ \E s \in Sessions, u \in Users \cup {NULL}, pg \in Pagings,
          f \in {NULL, "false"} :
          /\ s = NoSession => (u = NULL /\ pg = <<NULL, NULL>> /\ f = NULL)
          /\ GET(s, u, pg[1], pg[2], f)
    \/ \E s \in Sessions, body \in PostBodies, b \in {UNDEF, "u1", "root"} :
          /\ s = NoSession => body = <<"q1", "s1", UNDEF, UNDEF>>
          /\ POST(s, body[1], body[2], body[3], body[4], b)
    \/ \E s \in Sessions, id \in {0} \cup Ids, t \in PutTexts,
          ok \in {UNDEF, "true"}, v \in {UNDEF, "line"} :
          /\ s = NoSession => (t = <<UNDEF, UNDEF>> /\ ok = UNDEF /\ v = UNDEF)
          /\ PUT(s, id, t[1], t[2], ok, v)
    \/ \E s \in Sessions, id \in {0} \cup Ids : DELETE(s, id)

\* =================================================== VoiceEnrollment
\* One call of handleEnroll: where it is, its MediaStream, its MediaRecorder, the
\* chunks pushed by ondataavailable, and how often stop() and fetch() ran.
NewAttempt ==
    [pc |-> "getUserMedia", stream |-> "none", recorder |-> "none", timer |-> "none",
     audioChunks |-> 0, stops |-> 0, posts |-> 0]

InitVoice ==
    /\ isEnrolling = FALSE
    /\ status = ""
    /\ attempts = << >>
    /\ enrollRequests = {}

ButtonNeverDisabled == FALSE

\* The button's disabled attribute (line 59).
ButtonDisabled == isEnrolling

\* onClick: handleEnroll runs up to its first await (lines 11-15). React commits
\* the state set in a click handler before the next click is dispatched.
Click ==
    /\ InVoice
    /\ ~ButtonDisabled
    /\ Len(attempts) < MaxAttempts
    /\ isEnrolling' = TRUE
    /\ status' = "Recording enrollment sample... Speak now"
    /\ attempts' = Append(attempts, NewAttempt)
    /\ UNCHANGED enrollRequests

\* The catch block of handleEnroll (lines 48-52).
Catch ==
    /\ status' = "Error during enrollment"
    /\ isEnrolling' = FALSE

\* getUserMedia resolves; the recorder is built and started and the timer set
\* (lines 15-47).
MediaGranted(a) ==
    /\ InVoice
    /\ attempts[a].pc = "getUserMedia"
    /\ attempts' = [attempts EXCEPT ![a] =
           [@ EXCEPT !.pc = "recording", !.stream = "live",
                     !.recorder = "recording", !.timer = "armed"]]
    /\ UNCHANGED <<isEnrolling, status, enrollRequests>>

\* getUserMedia rejects (no permission, no device).
MediaDenied(a) ==
    /\ InVoice
    /\ attempts[a].pc = "getUserMedia"
    /\ attempts' = [attempts EXCEPT ![a] = [@ EXCEPT !.pc = "caught"]]
    /\ Catch
    /\ UNCHANGED enrollRequests

\* getUserMedia resolves, and new MediaRecorder(stream) or start() throws
\* (NotSupportedError): the catch runs with the stream acquired.
RecorderThrows(a) ==
    /\ InVoice
    /\ attempts[a].pc = "getUserMedia"
    /\ attempts' = [attempts EXCEPT ![a] = [@ EXCEPT !.pc = "caught", !.stream = "live"]]
    /\ Catch
    /\ UNCHANGED enrollRequests

\* The setTimeout callback (lines 44-47): stop() queues the last dataavailable
\* and the stop event.
TimerFires(a) ==
    /\ InVoice
    /\ attempts[a].timer = "armed"
    /\ attempts' = [attempts EXCEPT ![a] =
           [@ EXCEPT !.pc = "stopping", !.timer = "fired",
                     !.recorder = "inactive", !.stops = @ + 1]]
    /\ isEnrolling' = FALSE
    /\ UNCHANGED <<status, enrollRequests>>

\* ondataavailable (lines 19-23) for the data recorded: pushed unless empty.
DataAvailable(a, size) ==
    /\ InVoice
    /\ attempts[a].pc = "stopping"
    /\ attempts' = [attempts EXCEPT ![a] =
           [@ EXCEPT !.pc = "stopped",
                     !.audioChunks = IF size > 0 THEN @ + 1 ELSE @]]
    /\ UNCHANGED <<isEnrolling, status, enrollRequests>>

\* The fields of the form posted (lines 27-28).
FormFields == {"audio"}

\* onstop up to its await (lines 25-33): the blob, the form, the fetch.
OnStop(a) ==
    /\ InVoice
    /\ attempts[a].pc = "stopped"
    /\ attempts' = [attempts EXCEPT ![a] = [@ EXCEPT !.pc = "fetch", !.posts = @ + 1]]
    /\ enrollRequests' = enrollRequests \cup
           {[attempt |-> a, url |-> "/api/auth/enroll", method |-> "POST",
             fields |-> FormFields, audio |-> attempts[a].audioChunks]}
    /\ UNCHANGED <<isEnrolling, status>>

\* What onstop does with a response that is not ok (lines 35-37): it throws, and
\* nothing after the throw runs.
AfterNotOk(att) == [att EXCEPT !.pc = "thrown"]

\* The response is ok (lines 39-40).
FetchOk(a) ==
    /\ InVoice
    /\ attempts[a].pc = "fetch"
    /\ attempts' = [attempts EXCEPT ![a] = [@ EXCEPT !.pc = "done", !.stream = "stopped"]]
    /\ status' = "Voice profile enrolled successfully"
    /\ UNCHANGED <<isEnrolling, enrollRequests>>

\* The response is not ok.
FetchNotOk(a) ==
    /\ InVoice
    /\ attempts[a].pc = "fetch"
    /\ attempts' = [attempts EXCEPT ![a] = AfterNotOk(@)]
    /\ UNCHANGED <<isEnrolling, status, enrollRequests>>

\* fetch rejects (the network failed): onstop's promise rejects at line 30.
FetchFails(a) ==
    /\ InVoice
    /\ attempts[a].pc = "fetch"
    /\ attempts' = [attempts EXCEPT ![a] = [@ EXCEPT !.pc = "fetchFailed"]]
    /\ UNCHANGED <<isEnrolling, status, enrollRequests>>

NextVoice ==
    \/ Click
    \/ \E a \in DOMAIN attempts : MediaGranted(a)
    \/ \E a \in DOMAIN attempts : MediaDenied(a)
    \/ \E a \in DOMAIN attempts : RecorderThrows(a)
    \/ \E a \in DOMAIN attempts : TimerFires(a)
    \/ \E a \in DOMAIN attempts, size \in {0, 1} : DataAvailable(a, size)
    \/ \E a \in DOMAIN attempts : OnStop(a)
    \/ \E a \in DOMAIN attempts : FetchOk(a)
    \/ \E a \in DOMAIN attempts : FetchNotOk(a)
    \/ \E a \in DOMAIN attempts : FetchFails(a)

\* ====================================================== TemplateStore
EngineUsers == {"u1", "u2"}
Extractors == {"e1", "e2"}
Writers == {1, 2}

\* put fails with QualityBelowThreshold under this quality.
MinQuality == 1

InitStore ==
    /\ templates = {}
    /\ lockHolder = [u \in EngineUsers |-> 0]
    /\ writers = [w \in Writers |-> [pc |-> "idle", user |-> "u1", extractor |-> "e1",
                                     prior |-> 0]]
    /\ putsStarted = 0
    /\ lastRead = [user |-> "u1", extractor |-> "e1", found |-> {}, reenrolling |-> FALSE,
                   superseded |-> FALSE, tick |-> FALSE]

\* The versions active for a user and extractor version.
ActiveVersions(u, e) ==
    {t.version : t \in {x \in templates : x.user = u /\ x.extractor = e /\ x.active}}

\* The versions a later put has superseded.
SupersededVersions(u, e) ==
    {t.version : t \in {x \in templates : x.user = u /\ x.extractor = e /\ x.superseded}}

NextVersion(u) ==
    1 + Cardinality({t \in templates : t.user = u})

WriteUnlocked(u) == TRUE

\* Writes for one user are mutually exclusive: a writer waits for the lock.
CanWrite(u) == lockHolder[u] = 0

\* The atomic swap of the active version: the prior row goes inactive and the
\* new row is active in one step.
Swap(rows, u, e, prior, version) ==
    {IF t.user = u /\ t.extractor = e /\ t.version = prior
     THEN [t EXCEPT !.active = FALSE, !.superseded = TRUE] ELSE t : t \in rows}
        \cup {[user |-> u, extractor |-> e, version |-> version, active |-> TRUE,
               superseded |-> FALSE]}

\* put, up to the write: the quality check, the lock, the read of the version
\* to supersede.
PutBegin(w, u, e, quality) ==
    /\ InStore
    /\ writers[w].pc = "idle"
    /\ putsStarted < MaxPuts
    /\ putsStarted' = putsStarted + 1
    /\ IF quality < MinQuality
       THEN UNCHANGED <<templates, lockHolder, writers, lastRead>>
       ELSE /\ CanWrite(u)
            /\ lockHolder' = [lockHolder EXCEPT ![u] = w]
            /\ writers' = [writers EXCEPT ![w] =
                   [pc |-> "writing", user |-> u, extractor |-> e,
                    prior |-> IF ActiveVersions(u, e) = {} THEN 0
                              ELSE CHOOSE v \in ActiveVersions(u, e) : TRUE]]
            /\ UNCHANGED <<templates, lastRead>>

\* put, the write: the new version replaces the prior one and the lock goes.
PutCommit(w) ==
    /\ InStore
    /\ writers[w].pc = "writing"
    /\ templates' = Swap(templates, writers[w].user, writers[w].extractor,
                         writers[w].prior, NextVersion(writers[w].user))
    /\ lockHolder' = [lockHolder EXCEPT ![writers[w].user] =
                         IF @ = w THEN 0 ELSE @]
    /\ writers' = [writers EXCEPT ![w] = [@ EXCEPT !.pc = "idle", !.prior = 0]]
    /\ UNCHANGED <<putsStarted, lastRead>>

\* revoke: the user's active templates go inactive, their rows stay.
Revoke(u) ==
    /\ InStore
    /\ CanWrite(u)
    /\ templates' = {IF t.user = u THEN [t EXCEPT !.active = FALSE] ELSE t :
                        t \in templates}
    /\ UNCHANGED <<lockHolder, writers, putsStarted, lastRead>>

\* getActive: one read of the active version.
GetActive(u, e) ==
    /\ InStore
    /\ lastRead' = [user |-> u, extractor |-> e, found |-> ActiveVersions(u, e),
                    reenrolling |-> \E w \in Writers :
                        /\ writers[w].pc = "writing"
                        /\ writers[w].user = u
                        /\ writers[w].extractor = e
                        /\ writers[w].prior # 0,
                    superseded |-> ActiveVersions(u, e) \cap SupersededVersions(u, e) # {},
                    tick |-> ~lastRead.tick]
    /\ UNCHANGED <<templates, lockHolder, writers, putsStarted>>

NextStore ==
    \/ \E w \in Writers, u \in EngineUsers, e \in Extractors, q \in {0, 1} :
          PutBegin(w, u, e, q)
    \/ \E w \in Writers : PutCommit(w)
    \/ \E u \in EngineUsers : Revoke(u)
    \/ \E u \in EngineUsers, e \in Extractors : GetActive(u, e)

\* ============================================ VerificationOrchestrator
\* The threshold of decide and the rejects that lock a user out (configuration).
Threshold == 5
MaxFailedAttempts == 2

\* What a supplied sample is: no speech in it, or speech scoring under, at or
\* over the threshold against the user's template.
Samples == {"silent", "under", "tie", "over"}

\* score(candidate, template), by what the sample is.
Score(sample) ==
    CASE sample = "under" -> Threshold - 1
      [] sample = "tie" -> Threshold
      [] sample = "over" -> Threshold + 1

\* decide(score, policy): Accept iff score >= threshold (4.4).
Decide(score, threshold) == IF score >= threshold THEN "Accept" ELSE "Reject"

\* The rate-limit collaborator's answer.
LockedOut(u) == failCount[u] >= MaxFailedAttempts

InitVerify ==
    /\ verifs = << >>
    /\ audit = << >>
    /\ failCount = [u \in EngineUsers |-> 0]
    /\ streak = [u \in EngineUsers |-> 0]
    /\ hasTemplate = [u \in EngineUsers |-> FALSE]

\* The context of an attempt that is over: nothing of the request is kept.
Finished ==
    [state |-> "Recorded", user |-> "-", sample |-> "-", decision |-> "-",
     reason |-> "-", scored |-> FALSE, seen |-> 0]

InFlight == {v \in DOMAIN verifs : verifs[v].state # "Recorded"}

\* A verification call arrives: a well-formed sample and a claimed identity.
Receive(u, sample) ==
    /\ InVerify
    /\ Len(verifs) < MaxVerifications
    /\ Cardinality(InFlight) < MaxInFlight
    /\ verifs' = Append(verifs,
           [state |-> "Received", user |-> u, sample |-> sample, decision |-> "none",
            reason |-> "none", scored |-> FALSE, seen |-> 0])
    /\ UNCHANGED <<audit, failCount, streak, hasTemplate>>

\* Received -> Extracting.
BeginExtract(v) ==
    /\ InVerify
    /\ verifs[v].state = "Received"
    /\ verifs' = [verifs EXCEPT ![v] = [@ EXCEPT !.state = "Extracting"]]
    /\ UNCHANGED <<audit, failCount, streak, hasTemplate>>

\* Extracting -> Matching, or Decided(Reject, ExtractionFailed) when the
\* extractor fails.
Extract(v) ==
    /\ InVerify
    /\ verifs[v].state = "Extracting"
    /\ verifs' = [verifs EXCEPT ![v] =
           IF @.sample = "silent"
           THEN [@ EXCEPT !.state = "Decided", !.decision = "Reject",
                          !.reason = "ExtractionFailed"]
           ELSE [@ EXCEPT !.state = "Matching"]]
    /\ UNCHANGED <<audit, failCount, streak, hasTemplate>>

\* Matching -> Decided: the template is fetched, the rate limit consulted, and
\* only then the score computed and compared.
Match(v) ==
    /\ InVerify
    /\ verifs[v].state = "Matching"
    /\ LET a == verifs[v]
           decision == Decide(Score(a.sample), Threshold)
       IN verifs' = [verifs EXCEPT ![v] =
              IF ~hasTemplate[a.user]
              THEN [a EXCEPT !.state = "Decided", !.decision = "Reject",
                             !.reason = "NoTemplate", !.seen = failCount[a.user]]
              ELSE IF LockedOut(a.user)
                   THEN [a EXCEPT !.state = "Decided", !.decision = "Reject",
                                  !.reason = "LockedOut", !.seen = failCount[a.user]]
                   ELSE [a EXCEPT !.state = "Decided", !.scored = TRUE,
                                  !.decision = decision,
                                  !.reason = IF decision = "Accept" THEN "Match"
                                             ELSE "Mismatch",
                                  !.seen = failCount[a.user]]]
    /\ UNCHANGED <<audit, failCount, streak, hasTemplate>>

CountFromStaleRead(v) == verifs[v].seen + 1

\* The counter after a reject: an atomic increment of the stored value.
CountAfterReject(v) == failCount[verifs[v].user] + 1

AuditOverwrite(log, rec) ==
    IF log = << >> THEN <<rec>> ELSE [log EXCEPT ![Len(log)] = rec]

\* The log after a record is appended.
AuditAppend(log, rec) == Append(log, rec)

\* Decided -> Recorded: the audit record is appended, a reject increments the
\* user's counter and an accept resets it.
Record(v) ==
    /\ InVerify
    /\ verifs[v].state = "Decided"
    /\ verifs' = [verifs EXCEPT ![v] = Finished]
    /\ audit' = AuditAppend(audit,
           [attempt |-> v, user |-> verifs[v].user, decision |-> verifs[v].decision,
            reason |-> verifs[v].reason])
    /\ failCount' = [failCount EXCEPT ![verifs[v].user] =
           IF verifs[v].decision = "Reject" THEN CountAfterReject(v) ELSE 0]
    /\ streak' = [streak EXCEPT ![verifs[v].user] =
           IF verifs[v].decision = "Reject" THEN @ + 1 ELSE 0]
    /\ UNCHANGED hasTemplate

\* The rate-limit window of a user ends.
WindowExpires(u) ==
    /\ InVerify
    /\ failCount[u] > 0
    /\ failCount' = [failCount EXCEPT ![u] = 0]
    /\ streak' = [streak EXCEPT ![u] = 0]
    /\ UNCHANGED <<verifs, audit, hasTemplate>>

\* The user enrolls (put) or revokes: getActive's answer changes.
TemplateChanges(u) ==
    /\ InVerify
    /\ hasTemplate' = [hasTemplate EXCEPT ![u] = ~@]
    /\ UNCHANGED <<verifs, audit, failCount, streak>>

NextVerify ==
    \/ \E u \in EngineUsers, sample \in Samples : Receive(u, sample)
    \/ \E v \in DOMAIN verifs : BeginExtract(v)
    \/ \E v \in DOMAIN verifs : Extract(v)
    \/ \E v \in DOMAIN verifs : Match(v)
    \/ \E v \in DOMAIN verifs : Record(v)
    \/ \E u \in EngineUsers : WindowExpires(u)
    \/ \E u \in EngineUsers : TemplateChanges(u)

\* ======================================================== specifications
vars == <<routeVars, voiceVars, storeVars, verifyVars, component>>

InitAll == InitRoute /\ InitVoice /\ InitStore /\ InitVerify

Init == InitAll /\ component \in {"route", "voice"}

Next == NextRoute \/ NextVoice

\* The code under src/: the route and the component.
Spec == Init /\ [][Next]_vars

InitRouteRun == InitAll /\ component = "route"

SpecRoute == InitRouteRun /\ [][NextRoute]_vars

InitVoiceRun == InitAll /\ component = "voice"

SpecVoice == InitVoiceRun /\ [][NextVoice]_vars

InitStoreRun == InitAll /\ component = "templates"

SpecStore == InitStoreRun /\ [][NextStore]_vars

InitVerifyRun == InitAll /\ component = "verification"

SpecVerify == InitVerifyRun /\ [][NextVerify]_vars

\* The browser runs a timer callback, a queued event and a promise reaction
\* once each is due, and a fetch settles one way or another.
FairVoice ==
    /\ WF_vars(\E a \in DOMAIN attempts : TimerFires(a))
    /\ WF_vars(\E a \in DOMAIN attempts, size \in {0, 1} : DataAvailable(a, size))
    /\ WF_vars(\E a \in DOMAIN attempts : OnStop(a))
    /\ WF_vars(\E a \in DOMAIN attempts : FetchOk(a) \/ FetchNotOk(a) \/ FetchFails(a))

SpecVoiceLive == InitVoiceRun /\ [][NextVoice]_vars /\ FairVoice

\* ================================================================ claims
Rejected == {400, 401, 403, 404}

Store == <<queryHistory, visualizations>>

\* C5 (POST): a step that answers a POST with 201 adds exactly one row, and its
\* userId is the session user's id, whatever userId the body named.
PostKeepsSessionIdentity ==
    (last'.op = "POST" /\ last'.status = 201) =>
        /\ Cardinality(DOMAIN queryHistory' \ DOMAIN queryHistory) = 1
        /\ \A id \in DOMAIN queryHistory' \ DOMAIN queryHistory :
               queryHistory'[id].userId = last'.user

\* C5 (VoiceEnrollment): every request sent to /api/auth/enroll carries the
\* audio field and nothing else.
EnrollCarriesOnlyAudio == \A r \in enrollRequests : r.fields = {"audio"}

\* C5: the identity a record is created under is the session's, never the
\* payload's: a POST's new row has the session user's id for every userId (or
\* none) in the body, and an enrollment request has no field but the audio.
C5_IdentityFromSession ==
    [][PostKeepsSessionIdentity /\ EnrollCarriesOnlyAudio']_vars

\* C5's case: a POST answered 201 whose body named another user.
C5_SpoofedPostCreated ==
    /\ last.op = "POST"
    /\ last.status = 201
    /\ last.claimed \notin {UNDEF, last.user}

\* C6 (GET): what a session that is not ADMIN is sent are its own rows, and a
\* GET naming its own id is not refused.
GetOnlyOwnRows ==
    (last'.op = "GET" /\ last'.role = "USER") =>
        /\ \A i \in DOMAIN last'.rows :
               /\ last'.rows[i] \in DOMAIN queryHistory'
               /\ queryHistory'[last'.rows[i]].userId = last'.user
        /\ last'.claimed = last'.user => last'.status \in {200, 500}

\* C6 (PUT, DELETE): a step of a session that is not ADMIN leaves every row of
\* another user, and its visualization, as it was, and answers 403 when the id
\* names such a row.
WriteOnlyOwnRows ==
    (last'.op \in {"PUT", "DELETE"} /\ last'.role = "USER") =>
        /\ \A id \in DOMAIN queryHistory :
               queryHistory[id].userId # last'.user =>
                   /\ id \in DOMAIN queryHistory'
                   /\ queryHistory'[id] = queryHistory[id]
                   /\ (id \in DOMAIN visualizations) = (id \in DOMAIN visualizations')
                   /\ id \in DOMAIN visualizations =>
                          visualizations'[id] = visualizations[id]
        /\ (last'.id \in DOMAIN queryHistory
                /\ queryHistory[last'.id].userId # last'.user) =>
               (last'.status = 403 /\ Store' = Store)

\* C6: for a session whose role is not ADMIN, GET returns no row of another
\* user, PUT and DELETE change or remove no row of another user (403, store
\* unchanged), and a GET for the user's own history is allowed.
C6_NonAdminIsolation == [][GetOnlyOwnRows /\ WriteOnlyOwnRows]_vars

\* C6's case: a regular user was refused a PUT or DELETE on another user's row
\* while owning a row of their own in the same store.
C6_ForeignWriteRefused ==
    /\ last.op \in {"PUT", "DELETE"}
    /\ last.role = "USER"
    /\ last.status = 403
    /\ \E id \in DOMAIN queryHistory : queryHistory[id].userId = last.user

\* C7: a request answered 400, 401, 403 or 404 leaves the rows and the
\* visualizations exactly as they were.
C7_RejectionLeavesStore == [][last'.status \in Rejected => Store' = Store]_vars

\* C7's case: a DELETE was answered 404 with rows and a visualization in store.
C7_RejectedWithRows ==
    /\ last.op = "DELETE"
    /\ last.status = 404
    /\ DOMAIN queryHistory # {}
    /\ DOMAIN visualizations # {}

Attempts == 1..MaxAttempts

Started(a) == a \in DOMAIN attempts

\* C8 (safety): the button is disabled from the click to the timer, so at most
\* one call is acquiring or recording; stop() and fetch() run at most once per
\* call, the fetch only with the recorder inactive, and one request is sent per
\* fetch.
OneRecordingOnePost ==
    /\ Cardinality({a \in DOMAIN attempts :
                       attempts[a].pc \in {"getUserMedia", "recording"}}) <= 1
    /\ \A a \in DOMAIN attempts :
          /\ attempts[a].pc \in {"getUserMedia", "recording"} => ButtonDisabled
          /\ attempts[a].stops <= 1
          /\ attempts[a].posts <= 1
          /\ (attempts[a].recorder = "inactive") = (attempts[a].stops = 1)
          /\ attempts[a].stops = 1 => attempts[a].timer = "fired"
          /\ attempts[a].posts = 1 =>
                 attempts[a].recorder = "inactive" /\ attempts[a].pc \notin {"stopping", "stopped"}
          /\ Cardinality({r \in enrollRequests : r.attempt = a}) = attempts[a].posts

\* C8: capture follows Idle -> Recording -> Captured -> Submitted: no second
\* recording starts while isEnrolling, every recording started is stopped
\* exactly once by the timer, and exactly one POST is sent per recording, after
\* it has stopped.
C8_CaptureSequence ==
    /\ []OneRecordingOnePost
    /\ \A a \in Attempts :
          (Started(a) /\ attempts[a].recorder = "recording") ~>
              (Started(a) /\ attempts[a].stops = 1 /\ attempts[a].posts = 1)

\* C8's case: a second recording runs while the first call's POST is in flight.
C8_SecondRecordingAfterStop ==
    /\ Started(2)
    /\ attempts[1].pc = "fetch"
    /\ attempts[2].recorder = "recording"

\* C3: a user has at most one active template per extractor version in every
\* state; no getActive returns a version a re-enrollment has superseded, finds
\* two templates, or finds none while a re-enrollment of that user is under way.
C3_OneActiveTemplate ==
    /\ \A u \in EngineUsers, e \in Extractors : Cardinality(ActiveVersions(u, e)) <= 1
    /\ Cardinality(lastRead.found) <= 1
    /\ ~lastRead.superseded
    /\ lastRead.reenrolling => Cardinality(lastRead.found) = 1

\* C3's case: a getActive issued while a re-enrollment of the same user holds
\* the lock and a second writer waits for it.
C3_ReadDuringReenrollment ==
    /\ lastRead.reenrolling
    /\ \E t \in templates :
          t.user = lastRead.user /\ t.extractor = lastRead.extractor /\ t.superseded

RecordsOf(v) == {i \in DOMAIN audit : audit[i].attempt = v}

\* C1 (append-only): a step leaves every audit record written where and as it was.
AuditOnlyGrows ==
    /\ Len(audit') >= Len(audit)
    /\ \A i \in DOMAIN audit : audit'[i] = audit[i]

\* C1 (the record): the step that ends an attempt appends the record of its
\* user, decision and reason.
RecordsTheDecision ==
    \A v \in DOMAIN verifs :
        (verifs[v].state # "Recorded" /\ verifs'[v].state = "Recorded") =>
            /\ verifs[v].state = "Decided"
            /\ Len(audit') = Len(audit) + 1
            /\ audit'[Len(audit')] =
                   [attempt |-> v, user |-> verifs[v].user,
                    decision |-> verifs[v].decision, reason |-> verifs[v].reason]

\* C1 (one record each): a Recorded attempt has exactly one audit record and an
\* attempt not yet Recorded has none.
OneRecordEach ==
    \A v \in DOMAIN verifs :
        IF verifs[v].state = "Recorded"
        THEN Cardinality(RecordsOf(v)) = 1
        ELSE RecordsOf(v) = {}

Rank(state) ==
    CASE state = "Received" -> 1
      [] state = "Extracting" -> 2
      [] state = "Matching" -> 3
      [] state = "Decided" -> 4
      [] state = "Recorded" -> 5

\* C1 (progress): an attempt only moves forward through its states.
Forward ==
    \A v \in DOMAIN verifs : Rank(verifs'[v].state) >= Rank(verifs[v].state)

StepOf(v) == BeginExtract(v) \/ Extract(v) \/ Match(v) \/ Record(v)

\* C1 (no path is stuck): an attempt that is not Recorded can take its next
\* transition, whatever the other attempts, the counter and the store do.
NeverStuck ==
    \A v \in DOMAIN verifs : verifs[v].state # "Recorded" => ENABLED StepOf(v)

NoUndercount == \A u \in EngineUsers : failCount[u] = streak[u]

\* C2 (lockout): an attempt that comes to its decision after MaxFailedAttempts
\* consecutive rejects of its user is rejected; with a template on file the
\* reason is LockedOut, no score is computed, whatever the sample would score.
LockoutStep ==
    \A v \in DOMAIN verifs :
        (/\ verifs[v].state \in {"Extracting", "Matching"}
         /\ verifs'[v].state = "Decided"
         /\ streak[verifs[v].user] >= MaxFailedAttempts) =>
            /\ verifs'[v].decision = "Reject"
            /\ ~verifs'[v].scored
            /\ (verifs[v].state = "Matching" /\ hasTemplate[verifs[v].user]) =>
                   verifs'[v].reason = "LockedOut"

C4_TieRejected ==
    \A v \in DOMAIN verifs :
        (verifs[v].scored /\ Score(verifs[v].sample) = Threshold) =>
            verifs[v].decision = "Reject"

\* C9: a call of handleEnroll whose POST has been answered, or has failed, has
\* stopped the tracks of its stream.
C9_TracksStoppedAfterPost ==
    \A a \in DOMAIN attempts :
        attempts[a].pc \in {"done", "thrown", "fetchFailed"} =>
            attempts[a].stream = "stopped"
====
